---------------------------- MODULE Spec2Model ----------------------------
(***************************************************************************)
(* Koala Cloud (src/app.py): sandboxed storage access, public share links, *)
(* the aria2 job reconciler and the yt-dlp job tracker, as state machines. *)
(*                                                                         *)
(* The specifications share one set of variables:                          *)
(*   SpecPath   path sandbox resolution (_safe_join, _safe_join_download)  *)
(*   SpecShare  share registry (api_share, shared_entry, api_delete)       *)
(*   SpecRecon  reconciler loop, the daemon, the torrent history handlers  *)
(*   SpecTicks  reconciler loop and the daemon alone (no HTTP handlers)    *)
(*   SpecTicksLive  SpecTicks with the reconciler thread running on        *)
(*   SpecRace   SpecTicks with overlapping first requests                  *)
(*   SpecYtdl   local extraction jobs (youtubedl_add, run_youtubedl)       *)
(*   SpecEnrich the enriched view of a job (enrich, _infer_name)           *)
(*   SpecAuth   login, logout and the decorated routes                     *)
(***************************************************************************)
EXTENDS Integers, Sequences, FiniteSets, TLC

VARIABLES
    \* ---- path sandbox
    sj,                \* the last sandbox resolution: root, input, result
    \* ---- storage and share registry
    fs,                \* the file system: existing path -> "file" | "dir"
    shares,            \* rows of table shares
    now,               \* the wall clock, in 1/Res seconds
    resp,              \* the response of the request just answered
    \* ---- reconciler
    _started,          \* the module flag of _start_tasks_once
    starting,          \* requests inside _start_tasks_once, past its test
    aria2,             \* the daemon: gid -> status of the job
    rc,                \* the _torrent_task threads: position and locals
    db_pending,        \* per thread, the rows of its open transaction
    torrent_history,   \* committed rows of table torrent_history
    th_seq,            \* AUTOINCREMENT counter of torrent_history
    torrent_status,    \* the "torrent_status" message on its way to the clients
    \* ---- local extraction jobs
    youtubedl_history, \* committed rows of table youtubedl_history
    yt_seq,            \* AUTOINCREMENT counter of youtubedl_history
    workers,           \* the run_youtubedl threads
    YTDL_TASKS,        \* the in-memory task map: task id -> status
    ytdl_status,       \* the last emitted "ytdl_status" progress list
    \* ---- login sessions
    cookie_jar,        \* the session cookie the browser holds
    signed,            \* the session cookies the server has signed and sent
    \* ---- the enriched view of a job
    enriched           \* the last enrich(row): the row and what came of it

pathVars  == <<sj>>
shareVars == <<fs, shares, now, resp>>
startVars == <<_started, starting>>
reconVars == <<aria2, rc, db_pending, torrent_history, th_seq, torrent_status>>
ytdlVars  == <<youtubedl_history, yt_seq, workers, YTDL_TASKS, ytdl_status>>
authVars  == <<cookie_jar, signed>>
viewVars  == <<enriched>>
notPath  == <<startVars, shareVars, reconVars, ytdlVars, authVars, viewVars>>
notShare == <<pathVars, startVars, reconVars, ytdlVars, authVars, viewVars>>
notRecon == <<pathVars, startVars, shareVars, ytdlVars, authVars, viewVars>>
notYtdl  == <<pathVars, startVars, shareVars, reconVars, authVars, viewVars>>
vars == <<sj, fs, shares, now, resp, _started, starting,
          aria2, rc, db_pending, torrent_history, th_seq, torrent_status,
          youtubedl_history, yt_seq, workers, YTDL_TASKS, ytdl_status,
          cookie_jar, signed, enriched>>

\* SQL NULL / Python None in an integer column.
NULL == -1

(***************************************************************************)
(* Paths.  A name is a sequence of characters, a path a sequence of names, *)
(* so that str(path) and str.startswith are computed character by          *)
(* character, as the code does.                                            *)
(***************************************************************************)
DOT    == <<".">>
DOTDOT == <<".", ".">>

NA  == <<"a">>          \* /a     the storage root
NA2 == <<"a", "2">>     \* /a2    a sibling of the storage root
NM  == <<"m">>          \* /m     the download root
NM2 == <<"m", "2">>     \* /m2    a sibling of the download root
ND  == <<"d">>          \* a directory
ND2 == <<"d", "2">>     \* its sibling
NF  == <<"f">>          \* a file
NL  == <<"l">>          \* a symbolic link

STORAGE_ROOT  == <<NA>>
DOWNLOAD_ROOT == <<NM>>

\* The symbolic links of the file system: /a/l -> /m2 (out of the storage root).
Symlinks == { [link |-> <<NA, NL>>, target |-> <<NM2>>] }

IsLink(p) == \E s \in Symlinks : s.link = p
LinkTarget(p) == (CHOOSE s \in Symlinks : s.link = p).target

Parent(p) == IF p = <<>> THEN <<>> ELSE SubSeq(p, 1, Len(p) - 1)

\* Path.resolve(): "." dropped, ".." taken physically, symlinks followed.
RECURSIVE ResolveFrom(_, _)
ResolveFrom(cur, segs) ==
    IF segs = <<>> THEN cur
    ELSE LET s == Head(segs) IN
         IF s = DOT THEN ResolveFrom(cur, Tail(segs))
         ELSE IF s = DOTDOT THEN ResolveFrom(Parent(cur), Tail(segs))
         ELSE LET nxt == Append(cur, s) IN
              ResolveFrom(IF IsLink(nxt) THEN LinkTarget(nxt) ELSE nxt, Tail(segs))

Resolve(p) == ResolveFrom(<<>>, p)

\* A caller's path string: `lead` leading separators, then the segments.
RelPath(lead, segs) == [lead |-> lead, segs |-> segs]

\* str.lstrip('/')
LStrip(rel) == [rel EXCEPT !.lead = 0]

\* pathlib's `base / rel`: an absolute right operand replaces the base.
JoinPath(base, rel) == IF rel.lead > 0 THEN rel.segs ELSE base \o rel.segs

\* str(path)
RECURSIVE PathStr(_)
PathStr(p) ==
    IF p = <<>> THEN <<"/">>
    ELSE IF Len(p) = 1 THEN <<"/">> \o p[1]
    ELSE PathStr(Parent(p)) \o <<"/">> \o p[Len(p)]

\* str.startswith
StartsWith(s, pre) == Len(pre) <= Len(s) /\ SubSeq(s, 1, Len(pre)) = pre

\* abort(code): the request ends with an HTTP error.
Abort(code) == [ok |-> FALSE, code |-> code, path |-> <<>>]
Ok(p) == [ok |-> TRUE, code |-> 200, path |-> p]

SafeJoinRoot(root, rel) ==
    LET p == Resolve(JoinPath(root, LStrip(rel))) IN
    IF ~StartsWith(PathStr(p), PathStr(root)) THEN Abort(400) ELSE Ok(p)

_safe_join(rel) == SafeJoinRoot(STORAGE_ROOT, rel)

_safe_join_download(rel) == SafeJoinRoot(DOWNLOAD_ROOT, rel)

\* p is root or lies in root's directory tree.
Inside(root, p) == Len(root) <= Len(p) /\ SubSeq(p, 1, Len(root)) = root

(***************************************************************************)
(* Bounds of the path inputs.                                              *)
(***************************************************************************)
MaxSegs == 3
MaxLead == 1

Segs == {DOT, DOTDOT, NA2, NM2, ND, NF, NL}

RECURSIVE SeqsUpTo(_, _)
SeqsUpTo(S, n) ==
    IF n = 0 THEN {<<>>}
    ELSE LET shorter == SeqsUpTo(S, n - 1) IN
         shorter \cup {Append(q, x) : q \in {r \in shorter : Len(r) = n - 1}, x \in S}

RelPaths == {RelPath(l, q) : l \in 0..MaxLead, q \in SeqsUpTo(Segs, MaxSegs)}

NoCall == [root |-> <<>>, rel |-> RelPath(0, <<>>), res |-> Abort(0)]

PathInit == sj = NoCall

\* One call is examined per behaviour.
safe_join_call ==
    /\ sj = NoCall
    /\ \E rel \in RelPaths :
        sj' = [root |-> STORAGE_ROOT, rel |-> rel, res |-> _safe_join(rel)]
    /\ UNCHANGED notPath

safe_join_download_call ==
    /\ sj = NoCall
    /\ \E rel \in RelPaths :
        sj' = [root |-> DOWNLOAD_ROOT, rel |-> rel, res |-> _safe_join_download(rel)]
    /\ UNCHANGED notPath


(***************************************************************************)
(* Storage and the share registry.                                         *)
(***************************************************************************)
\* The clock counts 1/Res seconds: time.time() is now / Res, int() truncates.
Res == 2
StartTime == 2
MaxTime == 4
MaxShares == 1

IntSeconds(t) == t \div Res

Tokens == 0..MaxShares

\* The tree the process starts on.
InitFs ==
    (<<NA>> :> "dir") @@ (<<NA, ND>> :> "dir") @@ (<<NA, ND, NF>> :> "file") @@
    (<<NA, ND2>> :> "dir") @@ (<<NA, ND2, NF>> :> "file") @@
    (<<NA2>> :> "dir") @@ (<<NA2, NF>> :> "file") @@
    (<<NM>> :> "dir") @@ (<<NM2>> :> "dir") @@ (<<NM2, NF>> :> "file")

Exists(f, p) == p \in DOMAIN f
IsDir(f, p)  == p \in DOMAIN f /\ f[p] = "dir"
IsFile(f, p) == p \in DOMAIN f /\ f[p] = "file"

\* shutil.rmtree(p) / p.unlink(): p and everything below it is gone.
Remove(f, p) == [q \in {x \in DOMAIN f : ~Inside(p, x)} |-> f[q]]

\* Python truthiness of an integer-or-None value.
Truthy(x) == x # NULL /\ x # 0

\* Request inputs.
NoRel == RelPath(0, <<>>)
ShareRels == { RelPath(0, <<ND>>), RelPath(1, <<ND, NF>>), RelPath(0, <<NF>>),
               RelPath(0, <<DOTDOT, NM>>) }
ChildRels == { NoRel, RelPath(0, <<NF>>), RelPath(0, <<DOTDOT, ND2, NF>>),
               RelPath(1, <<NM2, NF>>), RelPath(0, <<ND>>),
               RelPath(0, <<DOTDOT, ND2>>) }
DeleteRels == { RelPath(0, <<ND>>), RelPath(0, <<ND, NF>>),
                RelPath(0, <<DOTDOT, NM>>) }
\* expires_hours * 3600, in 1/Res seconds.
TtlChoices == { -2, 0, 1, 3 }

NoResp == [op |-> "none", code |-> 0, token |-> 0, rel |-> NoRel,
           kind |-> "none", path |-> <<>>]

\* An expiry computed for hours >= 0.
ExpiresAtGe(t, ttl) == IF ttl >= 0 THEN IntSeconds(t + ttl) ELSE NULL

\* expires_at = int(time.time() + hours * 3600) if hours > 0 else None
ExpiresAt(t, ttl) == IF ttl > 0 THEN IntSeconds(t + ttl) ELSE NULL

\* The row api_share inserts.
ShareRowBadFlag(token, target, f, t, ttl) ==
    [token |-> token, target_path |-> target,
     is_dir |-> IF IsDir(f, target) THEN 0 ELSE 1,
     expires_at |-> ExpiresAt(t, ttl), created_at |-> IntSeconds(t)]

ShareRow(token, target, f, t, ttl) ==
    [token |-> token, target_path |-> target,
     is_dir |-> IF IsDir(f, target) THEN 1 ELSE 0,
     expires_at |-> ExpiresAt(t, ttl), created_at |-> IntSeconds(t)]

\* if expires_at and time.time() > expires_at
ExpiredNever(row, t) == FALSE

Expired(row, t) == Truthy(row.expires_at) /\ t > row.expires_at * Res

\* What a response carries: the status, what is served, and its path.
Served(kind, p) == [code |-> 200, kind |-> kind, path |-> p]
Failed(code) == [code |-> code, kind |-> "none", path |-> <<>>]

\* The directory branch of shared_entry: the child path under the target.
BrowseChild(f, target, child) ==
    LET current == Resolve(IF child # NoRel THEN JoinPath(target, child) ELSE target) IN
    IF ~StartsWith(PathStr(current), PathStr(Resolve(target))) THEN Failed(400)
    ELSE IF IsFile(f, current) THEN Served("file", current)
    ELSE IF ~Exists(f, current) THEN Failed(500)          \* iterdir raises
    ELSE IF ~Inside(target, current) THEN Failed(500)     \* relative_to raises
    ELSE Served("listing", current)

\* GET /s/<token>?p=<child>
SharedEntry(sh, f, t, token, child) ==
    LET rows == {s \in sh : s.token = token} IN
    IF rows = {} THEN Failed(404)
    ELSE LET row == CHOOSE s \in rows : TRUE IN
         IF Expired(row, t) THEN Failed(410)
         ELSE IF ~Exists(f, row.target_path) THEN Failed(404)
         ELSE IF row.is_dir = 0 THEN
              (IF IsFile(f, row.target_path)
               THEN Served("file", row.target_path) ELSE Failed(500))
         ELSE BrowseChild(f, row.target_path, child)

ShareInit ==
    /\ fs = InitFs
    /\ shares = {}
    /\ now = StartTime
    /\ resp = NoResp

Response(op, r, token, rel) ==
    [op |-> op, code |-> r.code, token |-> token, rel |-> rel,
     kind |-> r.kind, path |-> r.path]

\* POST /api/share
api_share ==
    \E rel \in ShareRels, ttl \in TtlChoices, token \in Tokens :
        LET target == _safe_join(rel) IN
        /\ _started
        /\ \/ /\ ~target.ok
              /\ resp' = Response("share", Failed(400), 0, rel)
              /\ UNCHANGED shares
           \/ /\ target.ok
              /\ ~Exists(fs, target.path)
              /\ resp' = Response("share", Failed(404), 0, rel)
              /\ UNCHANGED shares
           \/ /\ target.ok
              /\ Exists(fs, target.path)
              /\ resp' = Response("share", Failed(500), 0, rel)  \* the INSERT raises
              /\ UNCHANGED shares
           \/ /\ target.ok
              /\ Exists(fs, target.path)
              /\ ~\E s \in shares : s.token = token
              /\ Cardinality(shares) < MaxShares
              /\ shares' = shares \cup {ShareRow(token, target.path, fs, now, ttl)}
              /\ resp' = Response("share", Served("token", <<>>), token, rel)
        /\ UNCHANGED <<fs, now>>
        /\ UNCHANGED notShare

\* GET /s/<token>
shared_entry ==
    \E token \in Tokens, child \in ChildRels :
        /\ _started
        /\ resp' = Response("access", SharedEntry(shares, fs, now, token, child),
                            token, NoRel)
        /\ UNCHANGED <<fs, shares, now>>
        /\ UNCHANGED notShare

\* POST /api/delete
api_delete ==
    \E rel \in DeleteRels :
        LET p == _safe_join(rel) IN
        /\ _started
        /\ \/ /\ ~p.ok
              /\ resp' = Response("delete", Failed(400), 0, NoRel)
              /\ UNCHANGED fs
           \/ /\ p.ok
              /\ ~Exists(fs, p.path)
              /\ resp' = Response("delete", Failed(404), 0, NoRel)
              /\ UNCHANGED fs
           \/ /\ p.ok
              /\ Exists(fs, p.path)
              /\ fs' = Remove(fs, p.path)
              /\ resp' = Response("delete", Served("none", <<>>), 0, NoRel)
        /\ UNCHANGED <<shares, now>>
        /\ UNCHANGED notShare

\* The wall clock advances; the response of an earlier instant is history.
Tick ==
    /\ now < MaxTime
    /\ now' = now + 1
    /\ resp' = NoResp
    /\ UNCHANGED <<fs, shares>>
    /\ UNCHANGED notShare


(***************************************************************************)
(* The background loops and their start.                                   *)
(***************************************************************************)
\* How many requests may be inside _start_tasks_once at once, and so how many
\* copies of each background loop the process can come to run.
MaxLoops == 2

Loops == 1..MaxLoops

\* The locals of one _torrent_task thread; pc "off": not started.
Off      == [pc |-> "off", active |-> {}, waiting |-> {}, progress |-> {}, rows |-> <<>>]
Sleeping == [pc |-> "sleep", active |-> {}, waiting |-> {}, progress |-> {}, rows |-> <<>>]

\* except Exception: the thread is in the except clause of its tick; of the
\* locals only rows is kept, none is read again before the next tick sets it.
Caught(r) == [pc |-> "except", active |-> {}, waiting |-> {}, progress |-> {},
              rows |-> r.rows]

\* socketio.emit("torrent_status", {"progress": progress}): the message, until
\* the clients have it.
NoEmit  == [emitted |-> FALSE, progress |-> {}]
Emit(p) == [emitted |-> TRUE, progress |-> p]

Running == {t \in Loops : rc[t].pc # "off"}

\* socketio.start_background_task(...) x 3; _started = True
StartLoops(r) ==
    LET t == CHOOSE u \in Loops : r[u].pc = "off" /\ \A v \in Loops : v < u => r[v].pc # "off"
    IN [r EXCEPT ![t] = Sleeping]

StartInit ==
    /\ _started = FALSE
    /\ starting = 0

\* @app.before_request, run by a request while no other request is inside it.
_start_tasks_once ==
    /\ starting = 0
    /\ rc' = IF ~_started THEN StartLoops(rc) ELSE rc
    /\ _started' = TRUE
    /\ UNCHANGED <<starting, aria2, db_pending, torrent_history, th_seq>>
    /\ torrent_status' = NoEmit
    /\ UNCHANGED <<pathVars, shareVars, ytdlVars, authVars, viewVars>>

\* _start_tasks_once, its first line: `if not _started` read as False by a
\* request thread, which goes on into the body.
start_check ==
    /\ ~_started
    /\ starting + Cardinality(Running) < MaxLoops
    /\ starting' = starting + 1
    /\ UNCHANGED <<_started, aria2, rc, db_pending, torrent_history, th_seq>>
    /\ torrent_status' = NoEmit
    /\ UNCHANGED <<pathVars, shareVars, ytdlVars, authVars, viewVars>>

\* _start_tasks_once, its body, run by a request thread that passed the test.
start_body ==
    /\ starting > 0
    /\ rc' = StartLoops(rc)
    /\ _started' = TRUE
    /\ starting' = starting - 1
    /\ UNCHANGED <<aria2, db_pending, torrent_history, th_seq>>
    /\ torrent_status' = NoEmit
    /\ UNCHANGED <<pathVars, shareVars, ytdlVars, authVars, viewVars>>

(***************************************************************************)
(* The aria2 daemon, as the RPC calls see it, and the job reconciler.      *)
(***************************************************************************)
MaxGids == 2
MaxDeletes == 1

Gids == 1..MaxGids

LiveStatus    == {"active", "waiting", "paused"}
StoppedStatus == {"complete", "error", "removed"}

\* How one _aria2_call ends: the daemon does it and answers with "result";
\* urlopen raises (network error, timeout, HTTP error status); or the daemon
\* answers with a body that has no "result" and has done nothing.
RpcOutcomes == {"ok", "raise", "no_result"}

Row(g) == [gid |-> g, status |-> aria2[g]]

\* aria2.tellActive / tellWaiting / tellStopped, answered by the daemon.
TellActive  == {Row(g) : g \in {h \in Gids : aria2[h] = "active"}}
TellWaiting == {Row(g) : g \in {h \in Gids : aria2[h] \in {"waiting", "paused"}}}
TellStopped == {Row(g) : g \in {h \in Gids : aria2[h] \in StoppedStatus}}

\* .get("result", [])
ResultOf(outcome, list) == IF outcome = "ok" THEN list ELSE {}

\* progress built from the active list alone.
ProgressActiveOnly(active, waiting) == {r \in active : r.status \in LiveStatus}

\* [enrich(r) for r in (active + waiting) if r.get("status") in (...)]
Progress(active, waiting) == {r \in active \cup waiting : r.status \in LiveStatus}

\* completed_rows built without the test of the status.
CompletedRowsAll(stopped) == stopped

\* [enrich(r) for r in stopped if r.get("status") == "complete"]
CompletedRows(stopped) == {r \in stopped : r.status = "complete"}

\* The orders in which the daemon may list a set of rows.
Orderings(S) ==
    {q \in [1..Cardinality(S) -> S] : \A i, j \in 1..Cardinality(S) : q[i] = q[j] => i = j}

\* SELECT 1 FROM torrent_history WHERE gid=? LIMIT 1
HasRow(rows, gid) == \E r \in rows : r.gid = gid

\* What a connection reads: the committed rows and its own uncommitted ones.
Visible(t) == torrent_history \cup db_pending[t]

\* The database's write lock is free, or held by t's own transaction.
CanWrite(t) == \A u \in Loops \ {t} : db_pending[u] = {}

\* INSERT INTO torrent_history(...): the row gets the next AUTOINCREMENT id.
InsertHistory(pending, gid) ==
    pending \cup {[id |-> th_seq + Cardinality(pending) + 1, gid |-> gid]}

ReconInit ==
    /\ aria2 = [g \in Gids |-> "none"]
    /\ rc = [t \in Loops |-> Off]
    /\ db_pending = [t \in Loops |-> {}]
    /\ torrent_history = {}
    /\ th_seq = 0
    /\ torrent_status = NoEmit


\* The daemon works on its jobs; other clients of the daemon submit and pause.
aria2_step ==
    /\ \E g \in Gids :
        \/ /\ aria2[g] = "none"
           /\ \E s \in {"active", "waiting"} : aria2' = [aria2 EXCEPT ![g] = s]
        \/ /\ aria2[g] = "waiting"
           /\ aria2' = [aria2 EXCEPT ![g] = "active"]
        \/ /\ aria2[g] = "active"
           /\ \E s \in {"paused", "complete", "error"} : aria2' = [aria2 EXCEPT ![g] = s]
        \/ /\ aria2[g] = "paused"
           /\ aria2' = [aria2 EXCEPT ![g] = "active"]
    /\ UNCHANGED <<rc, db_pending, torrent_history, th_seq>>
    /\ torrent_status' = NoEmit
    /\ UNCHANGED notRecon

\* _torrent_task: active = _aria2_call("aria2.tellActive", ...); an exception
\* ends the tick in the except clause.
tick_tellActive ==
    /\ \E t \in Loops, o \in RpcOutcomes :
        /\ rc[t].pc = "sleep"
        /\ rc' = [rc EXCEPT ![t] =
                    IF o = "raise" THEN Caught(@)
                    ELSE [@ EXCEPT !.pc = "tellWaiting",
                                   !.active = ResultOf(o, TellActive)]]
    /\ UNCHANGED <<aria2, db_pending, torrent_history, th_seq>>
    /\ torrent_status' = NoEmit
    /\ UNCHANGED notRecon

\* _torrent_task: waiting = _aria2_call("aria2.tellWaiting", ...)
tick_tellWaiting ==
    /\ \E t \in Loops, o \in RpcOutcomes :
        /\ rc[t].pc = "tellWaiting"
        /\ rc' = [rc EXCEPT ![t] =
                    IF o = "raise" THEN Caught(@)
                    ELSE [@ EXCEPT !.pc = "tellStopped",
                                   !.waiting = ResultOf(o, TellWaiting)]]
    /\ UNCHANGED <<aria2, db_pending, torrent_history, th_seq>>
    /\ torrent_status' = NoEmit
    /\ UNCHANGED notRecon

\* _torrent_task: stopped = _aria2_call("aria2.tellStopped", ...), the two list
\* comprehensions, and, when nothing completed, the emit.
tick_tellStopped ==
    /\ \E t \in Loops, o \in RpcOutcomes :
        LET completed_rows == CompletedRows(ResultOf(o, TellStopped))
            progress == Progress(rc[t].active, rc[t].waiting)
        IN
        /\ rc[t].pc = "tellStopped"
        /\ \/ /\ o = "raise"
              /\ rc' = [rc EXCEPT ![t] = Caught(@)]
              /\ torrent_status' = NoEmit
           \/ /\ o # "raise"
              /\ completed_rows = {}
              /\ torrent_status' = Emit(progress)
              /\ rc' = [rc EXCEPT ![t] = Sleeping]
           \/ /\ o # "raise"
              /\ completed_rows # {}
              /\ \E q \in Orderings(completed_rows) :
                    rc' = [rc EXCEPT ![t] = [@ EXCEPT !.pc = "select",
                                                      !.progress = progress,
                                                      !.rows = q]]
              /\ torrent_status' = NoEmit
    /\ UNCHANGED <<aria2, db_pending, torrent_history, th_seq>>
    /\ UNCHANGED notRecon

\* _record_history, one row: the SELECT.
record_select ==
    /\ \E t \in Loops :
        /\ rc[t].pc = "select"
        /\ rc' = [rc EXCEPT ![t].pc =
                    IF HasRow(Visible(t), Head(rc[t].rows).gid) THEN "forget" ELSE "insert"]
    /\ UNCHANGED <<aria2, db_pending, torrent_history, th_seq>>
    /\ torrent_status' = NoEmit
    /\ UNCHANGED notRecon

\* _record_history, one row: the INSERT, which opens the transaction.  While
\* another connection holds the write lock the statement waits, and raises
\* "database is locked" when the wait times out.
record_insert ==
    /\ \E t \in Loops :
        /\ rc[t].pc = "insert"
        /\ \/ /\ CanWrite(t)
              /\ db_pending' = [db_pending EXCEPT ![t] =
                                    InsertHistory(@, Head(rc[t].rows).gid)]
              /\ rc' = [rc EXCEPT ![t].pc = "forget"]
           \/ /\ ~CanWrite(t)
              /\ rc' = [rc EXCEPT ![t] = Caught(@)]
              /\ UNCHANGED db_pending
    /\ UNCHANGED <<aria2, torrent_history, th_seq>>
    /\ torrent_status' = NoEmit
    /\ UNCHANGED notRecon

\* A connection left as it is by the exception: its rows stay in its open
\* transaction.
KeepPending(p, t) == p

\* `with sqlite3.connect(DB_PATH) as conn:` left by an exception: the
\* connection rolls its transaction back.
Rollback(p, t) == [p EXCEPT ![t] = {}]

\* The daemon drops the result of a stopped job.
Forget(a, g) == [a EXCEPT ![g] = "gone"]

\* _record_history, one row: _aria2_call("aria2.removeDownloadResult", [gid]);
\* after the last row conn.commit(), and back in _torrent_task the emit.  An
\* exception leaves the `with` block, which rolls the transaction back, and
\* ends the tick in the except clause.
forget_row ==
    /\ \E t \in Loops, o \in RpcOutcomes :
        LET g == Head(rc[t].rows).gid IN
        /\ rc[t].pc = "forget"
        /\ o = "ok" => aria2[g] \in StoppedStatus
        /\ aria2' = IF o = "ok" THEN Forget(aria2, g) ELSE aria2
        /\ \/ /\ o = "raise"
              /\ db_pending' = Rollback(db_pending, t)
              /\ rc' = [rc EXCEPT ![t] = Caught(@)]
              /\ UNCHANGED <<torrent_history, th_seq>>
              /\ torrent_status' = NoEmit
           \/ /\ o # "raise"
              /\ Tail(rc[t].rows) # <<>>
              /\ rc' = [rc EXCEPT ![t].rows = Tail(@), ![t].pc = "select"]
              /\ UNCHANGED <<db_pending, torrent_history, th_seq>>
              /\ torrent_status' = NoEmit
           \/ /\ o # "raise"
              /\ Tail(rc[t].rows) = <<>>
              /\ torrent_history' = torrent_history \cup db_pending[t]
              /\ th_seq' = th_seq + Cardinality(db_pending[t])
              /\ db_pending' = [db_pending EXCEPT ![t] = {}]
              /\ torrent_status' = Emit(rc[t].progress)
              /\ rc' = [rc EXCEPT ![t] = Sleeping]
    /\ UNCHANGED notRecon

\* No except clause: the exception leaves _torrent_task and the thread ends.
Reraise(r, t) == [r EXCEPT ![t] = Off]

\* except Exception: pass -- the exception ends here, and the thread goes on
\* to socketio.sleep(2) and the next round of `while True`.
Swallow(r, t) == [r EXCEPT ![t] = Sleeping]

\* _torrent_task: the except clause of a tick that raised.
tick_except ==
    /\ \E t \in Loops :
        /\ rc[t].pc = "except"
        /\ rc' = Swallow(rc, t)
    /\ UNCHANGED <<aria2, db_pending, torrent_history, th_seq>>
    /\ torrent_status' = NoEmit
    /\ UNCHANGED notRecon

\* Path.mkdir(parents=True, exist_ok=True)
MkdirP(f, p) ==
    LET missing == {SubSeq(p, 1, n) : n \in 1..Len(p)} \ DOMAIN f IN
    [q \in DOMAIN f \cup missing |-> IF q \in DOMAIN f THEN f[q] ELSE "dir"]

Links == {"", "uri"}
AddDests == { NoRel, RelPath(0, <<ND>>), RelPath(0, <<DOTDOT, NA>>) }

\* The directory made before the link is tested.
DestDirEager(f, link, dpath) == IF ~dpath.ok THEN f ELSE MkdirP(f, dpath.path)

\* dpath.mkdir(parents=True, exist_ok=True), which a request reaches past
\* abort(400, 'Missing ... link') and past the abort of _safe_join_download.
DestDir(f, link, dpath) ==
    IF link = "" \/ ~dpath.ok THEN f ELSE MkdirP(f, dpath.path)

\* POST /admin/torrents/add
torrents_add ==
    /\ _started
    /\ \E link \in Links, dest \in AddDests :
        LET dpath == _safe_join_download(dest) IN
        /\ fs' = DestDir(fs, link, dpath)
        /\ \/ /\ link = ""
              /\ resp' = Response("torrents_add", Failed(400), 0, dest)
              /\ UNCHANGED aria2
           \/ /\ link # ""
              /\ ~dpath.ok
              /\ resp' = Response("torrents_add", Failed(dpath.code), 0, dest)
              /\ UNCHANGED aria2
           \/ /\ link # ""
              /\ dpath.ok
              /\ \E o \in RpcOutcomes :
                   \/ /\ o = "ok"
                      /\ \E g \in Gids, st \in {"active", "waiting"} :
                           /\ aria2[g] = "none"
                           /\ aria2' = [aria2 EXCEPT ![g] = st]
                      /\ resp' = Response("torrents_add", Served("none", <<>>), 0, dest)
                   \/ /\ o = "no_result"
                      /\ UNCHANGED aria2
                      /\ resp' = Response("torrents_add", Served("none", <<>>), 0, dest)
                   \/ /\ o = "raise"
                      /\ UNCHANGED aria2
                      /\ resp' = Response("torrents_add", Failed(500), 0, dest)
    /\ UNCHANGED <<rc, db_pending, torrent_history, th_seq>>
    /\ torrent_status' = NoEmit
    /\ UNCHANGED <<pathVars, startVars, shares, now, ytdlVars, authVars, viewVars>>

\* aria2.remove: a live job is stopped and listed among the stopped ones.
RemoveJob(a, g) == [a EXCEPT ![g] = "removed"]

\* POST /admin/torrents/remove (gid 0: the request names no gid)
torrents_remove ==
    /\ _started
    /\ \E gid \in {0} \cup Gids :
        \/ /\ gid = 0
           /\ UNCHANGED aria2
        \/ /\ gid # 0
           /\ \E o1 \in RpcOutcomes, o2 \in RpcOutcomes :
                LET a1 == IF o1 = "ok" THEN RemoveJob(aria2, gid) ELSE aria2 IN
                /\ o1 = "ok" => aria2[gid] \in LiveStatus
                /\ o2 = "ok" => a1[gid] \in StoppedStatus
                /\ aria2' = IF o2 = "ok" THEN Forget(a1, gid) ELSE a1
    /\ UNCHANGED <<rc, db_pending, torrent_history, th_seq>>
    /\ torrent_status' = NoEmit
    /\ UNCHANGED notRecon

\* GET /admin/torrents/history
torrents_history ==
    /\ _started
    /\ UNCHANGED <<aria2, rc, db_pending, torrent_history, th_seq>>
    /\ torrent_status' = NoEmit
    /\ UNCHANGED notRecon

\* DELETE FROM torrent_history WHERE id=?
DeleteHistory(rows, hid) == {r \in rows : r.id # hid}

\* POST /admin/torrents/history/delete (NULL: the request names no id).  While
\* a reconciler's transaction holds the write lock the DELETE times out.
torrents_history_delete ==
    /\ _started
    /\ \E hid \in {NULL} \cup (1..(MaxGids + MaxDeletes)) :
        \/ /\ hid = NULL
           /\ UNCHANGED torrent_history
        \/ /\ hid # NULL
           /\ \E t \in Loops : db_pending[t] # {}
           /\ UNCHANGED torrent_history
        \/ /\ hid # NULL
           /\ \A t \in Loops : db_pending[t] = {}
           /\ th_seq < MaxGids + MaxDeletes
           /\ torrent_history' = DeleteHistory(torrent_history, hid)
    /\ UNCHANGED <<aria2, rc, db_pending, th_seq>>
    /\ torrent_status' = NoEmit
    /\ UNCHANGED notRecon

(***************************************************************************)
(* Local extraction jobs.                                                  *)
(***************************************************************************)
MaxJobs == 2
MaxTaskIds == 2

TaskIds == 1..MaxTaskIds
PLACEHOLDER == "Fetching title..."
Titles == {"Song", "YouTube Content"}

RunningPc == {"probe", "download", "complete"}

\* INSERT INTO youtubedl_history(name, url, dest, audio_only, added_at); the
\* columns dest and audio_only are written once and never read by the jobs.
InsertJob(hist, id, link, t) ==
    hist \cup {[id |-> id, name |-> PLACEHOLDER, url |-> link,
                added_at |-> IntSeconds(t),
                completed_at |-> NULL]}

\* UPDATE youtubedl_history SET name=? WHERE id=?
UpdateName(hist, title, id) ==
    {IF r.id = id THEN [r EXCEPT !.name = title] ELSE r : r \in hist}

\* UPDATE youtubedl_history SET completed_at=? WHERE id=?
UpdateCompleted(hist, ts, id) ==
    {IF r.id = id THEN [r EXCEPT !.completed_at = ts] ELSE r : r \in hist}

\* if task_id in YTDL_TASKS: YTDL_TASKS[task_id]['status'] = status
MarkStatus(tasks, task_id, status) ==
    IF task_id \in DOMAIN tasks THEN [tasks EXCEPT ![task_id] = status] ELSE tasks

\* A worker built for the id the next INSERT will get (a thread created ahead of
\* its record).
NewWorkerEarly(ws, task_id, db_id) ==
    ws \cup {[task_id |-> task_id, db_id |-> db_id + 1, pc |-> "created", title |-> "",
            retcode |-> NULL]}

\* thread = threading.Thread(target=run_youtubedl, args=(..., task_id, db_id));
\* pc "created": the thread is not started yet.
NewWorker(ws, task_id, db_id) ==
    ws \cup {[task_id |-> task_id, db_id |-> db_id, pc |-> "created", title |-> "",
            retcode |-> NULL]}

\* A step that takes every worker thread along with w.
StepEvery(w, pc) == {[v EXCEPT !.pc = pc] : v \in workers}

\* One run_youtubedl thread moves on; the others stay where they are.
Step(w, pc) == (workers \ {w}) \cup {[w EXCEPT !.pc = pc]}

\* task_id = secrets.token_hex(8): the ids are opaque, so a new one is either
\* an id in use (a collision) or, standing for every fresh value, the least
\* id not in use.
InUse == {w.task_id : w \in workers} \cup DOMAIN YTDL_TASKS
NewTaskIds == {i \in TaskIds : i \in InUse \/ \A j \in TaskIds \ InUse : i <= j}

YtdlInit ==
    /\ youtubedl_history = {}
    /\ yt_seq = 0
    /\ workers = {}
    /\ YTDL_TASKS = <<>>
    /\ ytdl_status = {}

\* POST /admin/youtubedl/add, up to conn.commit() and the Thread object.
youtubedl_add ==
    /\ _started
    /\ \E link \in Links, dest \in AddDests, task_id \in NewTaskIds :
        LET dpath == _safe_join_download(dest) IN
        /\ fs' = DestDir(fs, link, dpath)
        /\ \/ /\ link = ""
              /\ resp' = Response("youtubedl_add", Failed(400), 0, dest)
              /\ UNCHANGED <<youtubedl_history, yt_seq, workers>>
           \/ /\ link # ""
              /\ ~dpath.ok
              /\ resp' = Response("youtubedl_add", Failed(dpath.code), 0, dest)
              /\ UNCHANGED <<youtubedl_history, yt_seq, workers>>
           \/ /\ link # ""
              /\ dpath.ok                           \* the INSERT raises
              /\ resp' = Response("youtubedl_add", Failed(500), 0, dest)
              /\ UNCHANGED <<youtubedl_history, yt_seq, workers>>
           \/ /\ link # ""
              /\ dpath.ok
              /\ yt_seq < MaxJobs
              /\ youtubedl_history' =
                   InsertJob(youtubedl_history, yt_seq + 1, link, now)
              /\ yt_seq' = yt_seq + 1
              /\ workers' = NewWorker(workers, task_id, yt_seq + 1)
              /\ resp' = Response("youtubedl_add", Served("none", <<>>), 0, dest)
    /\ UNCHANGED <<YTDL_TASKS, ytdl_status>>
    /\ UNCHANGED <<pathVars, startVars, shares, now, reconVars, authVars, viewVars>>

\* POST /admin/youtubedl/add, after the commit: thread.start() and the answer.
youtubedl_add_start ==
    /\ \E w \in workers :
        /\ w.pc = "created"
        /\ workers' = Step(w, "probe")
    /\ UNCHANGED <<youtubedl_history, yt_seq, YTDL_TASKS, ytdl_status>>
    /\ UNCHANGED notYtdl

\* run_youtubedl: the title probe (extract_info) and the first UPDATE; a
\* failure goes to the except clause.
yt_probe ==
    /\ \E w \in workers :
        /\ w.pc = "probe"
        /\ \/ /\ \E title \in Titles :
                   /\ youtubedl_history' = UpdateName(youtubedl_history, title, w.db_id)
                   /\ workers' = (workers \ {w}) \cup
                                    {[w EXCEPT !.pc = "download", !.title = title]}
              /\ UNCHANGED YTDL_TASKS
           \/ /\ workers' = Step(w, "error")
              /\ YTDL_TASKS' = MarkStatus(YTDL_TASKS, w.task_id, "error")
              /\ UNCHANGED youtubedl_history
    /\ UNCHANGED <<yt_seq, ytdl_status>>
    /\ UNCHANGED notYtdl

\* run_youtubedl: ydl.download returns, or raises into the except clause.
\* Under 'ignoreerrors': True a download or postprocessing error is reported
\* and not raised: the call returns the retcode 1, which the code does not read.
yt_download ==
    /\ \E w \in workers :
        /\ w.pc = "download"
        /\ \/ /\ \E retcode \in {0, 1} :
                    workers' = (workers \ {w}) \cup
                                {[w EXCEPT !.pc = "complete", !.retcode = retcode]}
              /\ UNCHANGED YTDL_TASKS
           \/ /\ workers' = Step(w, "error")
              /\ YTDL_TASKS' = MarkStatus(YTDL_TASKS, w.task_id, "error")
    /\ UNCHANGED <<youtubedl_history, yt_seq, ytdl_status>>
    /\ UNCHANGED notYtdl

\* run_youtubedl: the second UPDATE and the 'finished' mark; an UPDATE that
\* raises goes to the except clause.
yt_complete ==
    /\ \E w \in workers :
        /\ w.pc = "complete"
        /\ \/ /\ youtubedl_history' =
                    UpdateCompleted(youtubedl_history, IntSeconds(now), w.db_id)
              /\ YTDL_TASKS' = MarkStatus(YTDL_TASKS, w.task_id, "finished")
              /\ workers' = workers \ {w}              \* the thread ends
           \/ /\ workers' = Step(w, "error")
              /\ YTDL_TASKS' = MarkStatus(YTDL_TASKS, w.task_id, "error")
              /\ UNCHANGED youtubedl_history
    /\ UNCHANGED <<yt_seq, ytdl_status>>
    /\ UNCHANGED notYtdl

\* _ytdl_task, one round: emit the tasks that are not terminal, then delete
\* the terminal ones.
ActiveTasks(tasks) == {[task_id |-> k, status |-> tasks[k]] :
                          k \in {j \in DOMAIN tasks : tasks[j] \notin {"finished", "error"}}}
\* finished_ids built without the test of the status.
FinishedIdsAny(tasks) == DOMAIN tasks

\* finished_ids = [task_id for ... if data.get('status') in ['finished', 'error']]
FinishedIds(tasks) == {k \in DOMAIN tasks : tasks[k] \in {"finished", "error"}}

\* for task_id in finished_ids: del YTDL_TASKS[task_id]
Prune(tasks, ids) == [k \in DOMAIN tasks \ ids |-> tasks[k]]

ytdl_task ==
    /\ Running # {}
    /\ ytdl_status' = ActiveTasks(YTDL_TASKS)
    /\ YTDL_TASKS' = Prune(YTDL_TASKS, FinishedIds(YTDL_TASKS))
    /\ UNCHANGED <<youtubedl_history, yt_seq, workers>>
    /\ UNCHANGED notYtdl

\* GET /admin/youtubedl/history
ytdl_history ==
    /\ _started
    /\ UNCHANGED <<youtubedl_history, yt_seq, workers, YTDL_TASKS, ytdl_status>>
    /\ UNCHANGED notYtdl

\* POST /admin/youtubedl/history/delete (NULL: the request names no id)
ytdl_history_delete ==
    /\ _started
    /\ \E hid \in {NULL} \cup (1..MaxJobs) :
        \/ /\ hid = NULL
           /\ UNCHANGED youtubedl_history
        \/ /\ hid # NULL
           /\ youtubedl_history' = DeleteHistory(youtubedl_history, hid)
    /\ UNCHANGED <<yt_seq, workers, YTDL_TASKS, ytdl_status>>
    /\ UNCHANGED notYtdl

\* The clock of the extraction jobs' timestamps.
yt_clock ==
    /\ now < MaxTime
    /\ now' = now + 1
    /\ UNCHANGED <<youtubedl_history, yt_seq, workers, YTDL_TASKS, ytdl_status>>
    /\ UNCHANGED <<sj, startVars, fs, shares, resp, reconVars, authVars, viewVars>>

\* No line of the program puts an entry into YTDL_TASKS, so the round of
\* _ytdl_task and the marks of run_youtubedl are also examined as functions of
\* the map: over every map of at most MaxTaskIds handles.  A status is
\* 'finished', 'error', or one that is neither ("running").
HandleStatus == {"running", "finished", "error"}
TaskMaps == UNION {[D -> HandleStatus] : D \in SUBSET TaskIds}

\* The thread and the record of the job behind the handle k.
JobOf(k) == [task_id |-> k, db_id |-> k, pc |-> "probe", title |-> "", retcode |-> NULL]
RecordOf(k, status) ==
    [id |-> k, name |-> PLACEHOLDER, url |-> "uri", added_at |-> IntSeconds(StartTime),
     completed_at |-> IF status = "finished" THEN IntSeconds(StartTime) ELSE NULL]

(***************************************************************************)
(* The enriched view of a job: enrich(row) and _infer_name(files, bt).     *)
(* A text is a sequence of characters; a file's path is the tuple of its   *)
(* Path(...).parts ("/" first when absolute), <<>> when the file has no    *)
(* "path" or an empty one.                                                 *)
(***************************************************************************)
MaxFiles == 2

\* row.get("totalLength"): the key may be missing (given = FALSE).
TotalLengths ==
    { [given |-> FALSE, text |-> <<>>] } \cup
    { [given |-> TRUE, text |-> x] :
        x \in { <<>>, <<"0">>, <<"0", "0">>, <<"5">>, <<"1", "0">>, <<"x">> } }

DigitVal == [c \in {"0", "1", "5"} |-> CASE c = "0" -> 0 [] c = "1" -> 1 [] c = "5" -> 5]

\* row.get("totalLength") or 0: None and "" are falsy and give the integer 0,
\* written here as the text "0".
OrZero(tl) == IF ~tl.given \/ tl.text = <<>> THEN <<"0">> ELSE tl.text

\* int(text) accepts a decimal numeral and raises ValueError otherwise.
IsNumeral(text) == text # <<>> /\ \A i \in 1..Len(text) : text[i] \in DOMAIN DigitVal

RECURSIVE IntOf(_)
IntOf(text) ==
    IF text = <<>> THEN 0
    ELSE 10 * IntOf(SubSeq(text, 1, Len(text) - 1)) + DigitVal[text[Len(text)]]

\* row["isMetadata"] = (total == 0), compared without int().
IsMetadataNoInt(tl) == ~tl.given \/ tl.text = <<>>

\* total = int(row.get("totalLength") or 0); row["isMetadata"] = (total == 0)
IsMetadata(tl) == IntOf(OrZero(tl)) = 0

\* The "bittorrent" struct: info.name is absent, empty or a name.
BtInfos == { [has |-> FALSE, name |-> ""], [has |-> TRUE, name |-> ""],
             [has |-> TRUE, name |-> "Movie"] }

FilePaths == { <<>>, <<"Show", "S01", "e1.mkv">>, <<"Show", "S01", "e2.mkv">>,
               <<"Show", "S02", "e1.mkv">>, <<"other.txt">>,
               <<"/", "a", "x">>, <<"/", "b", "y">>, <<"/">> }

FileLists == UNION { [1..n -> FilePaths] : n \in 0..MaxFiles }

\* [Path(f.get("path", "")).parts for f in files if f.get("path")]
PartsOf(files) == SelectSeq(files, LAMBDA q : q # <<>>)

\* The loop over zip(*parts): the segments all the tuples agree on, up to the
\* first position where they differ or the shortest tuple ends.
Common(parts) ==
    LET n == CHOOSE m \in 0..Len(parts[1]) :
                 /\ \A i \in 1..Len(parts) : m <= Len(parts[i])
                 /\ \E i \in 1..Len(parts) : Len(parts[i]) = m
        same(j) == \A i \in 1..Len(parts) : parts[i][j] = parts[1][j]
        k == CHOOSE m \in 0..n :
                 /\ \A j \in 1..m : same(j)
                 /\ m = n \/ ~same(m + 1)
    IN SubSeq(parts[1], 1, k)

\* Path(...).name: the last part, "" for the empty path and for the root.
PathName(q) == IF q = <<>> \/ q[Len(q)] = "/" THEN "" ELSE q[Len(q)]

UNKNOWN == "(unknown)"

_infer_name(files, bt) ==
    IF bt.has /\ bt.name # "" THEN bt.name
    ELSE IF files = <<>> THEN UNKNOWN
    ELSE LET parts == PartsOf(files) IN
         IF parts # <<>> /\ Common(parts) # <<>>
         THEN (IF PathName(Common(parts)) # "" THEN PathName(Common(parts))
               ELSE PathName(files[1]))
         ELSE PathName(files[1])

EnrichRows == [totalLength : TotalLengths, files : FileLists, bittorrent : BtInfos]

NoView == [called |-> FALSE]

\* enrich(row): the name, then the total; int() may raise, and then the tick
\* has no enriched row at all.
enrich(row) ==
    IF IsNumeral(OrZero(row.totalLength))
    THEN [called |-> TRUE, row |-> row, ok |-> TRUE,
          name |-> _infer_name(row.files, row.bittorrent),
          isMetadata |-> IsMetadata(row.totalLength)]
    ELSE [called |-> TRUE, row |-> row, ok |-> FALSE, name |-> "", isMetadata |-> FALSE]

ViewInit == enriched = NoView

\* One row of a tick's lists goes through enrich; one call is examined per
\* behaviour.
enrich_call ==
    /\ enriched = NoView
    /\ \E row \in EnrichRows : enriched' = enrich(row)
    /\ UNCHANGED <<pathVars, startVars, shareVars, reconVars, ytdlVars, authVars>>

(***************************************************************************)
(* Login sessions.  flask.session is stored in a cookie that the server    *)
(* signs with SECRET_KEY and the client keeps; the server keeps no record  *)
(* of the sessions it has issued.                                          *)
(***************************************************************************)
NoCookie == "none"
LoggedIn == "logged_in"        \* the cookie of session['logged_in'] = True

AuthInit ==
    /\ cookie_jar = NoCookie
    /\ signed = {}

\* The cookie a request carries: the one in the browser's jar, none, or one the
\* server signed earlier -- its signature is valid whatever happened since.
Presented == {cookie_jar, NoCookie} \cup signed

\* session.get('logged_in'), read from the cookie of the request.
SessionLoggedIn(c) == c = LoggedIn

\* return jsonify({'ok': False, 'error': 'Unauthorized', 'code': 401}), 401
Unauthorized(op) ==
    /\ resp' = Response(op, Failed(401), 0, NoRel)
    /\ UNCHANGED <<fs, shares, now>>
    /\ UNCHANGED notShare

\* @auth_required_json around a handler.
auth_required_json(op, func) ==
    \E c \in Presented :
        IF SessionLoggedIn(c) THEN func ELSE _started /\ Unauthorized(op)

\* POST /auth/login
auth_login ==
    /\ _started
    /\ \E outcome \in {"missing", "invalid", "valid"} :
        \/ /\ outcome = "missing"
           /\ resp' = Response("login", Failed(400), 0, NoRel)
           /\ UNCHANGED authVars
        \/ /\ outcome = "invalid"
           /\ resp' = Response("login", Failed(401), 0, NoRel)
           /\ UNCHANGED authVars
        \/ /\ outcome = "valid"
           /\ resp' = Response("login", Served("none", <<>>), 0, NoRel)
           /\ cookie_jar' = LoggedIn
           /\ signed' = signed \cup {LoggedIn}
    /\ UNCHANGED <<pathVars, startVars, fs, shares, now, reconVars, ytdlVars, viewVars>>

\* POST /auth/logout: session.clear(); the answer tells the browser to drop
\* its cookie.
auth_logout ==
    /\ _started
    /\ resp' = Response("logout", Served("none", <<>>), 0, NoRel)
    /\ cookie_jar' = NoCookie
    /\ UNCHANGED signed
    /\ UNCHANGED <<pathVars, startVars, fs, shares, now, reconVars, ytdlVars, viewVars>>

\* The decorated routes of the storage, the shares and the daemon's jobs; the
\* routes of the extraction jobs carry the same decorator.
route_api_share == auth_required_json("share", api_share)
route_api_delete == auth_required_json("delete", api_delete)
route_torrents_add == auth_required_json("torrents_add", torrents_add)
route_torrents_remove == auth_required_json("torrents_remove", torrents_remove)
route_torrents_history == auth_required_json("torrents_history", torrents_history)
route_torrents_history_delete ==
    auth_required_json("torrents_history_delete", torrents_history_delete)

(***************************************************************************)
(* The specifications.                                                     *)
(***************************************************************************)
PathNext ==
    \/ safe_join_call
    \/ safe_join_download_call

ShareNext ==
    \/ _start_tasks_once
    \/ api_share
    \/ shared_entry
    \/ api_delete
    \/ Tick

\* The reconciler and the daemon; the loops are started by one request.
TicksNext ==
    \/ _start_tasks_once
    \/ aria2_step
    \/ tick_tellActive
    \/ tick_tellWaiting
    \/ tick_tellStopped
    \/ record_select
    \/ record_insert
    \/ forget_row
    \/ tick_except

\* The same, with first requests that overlap inside _start_tasks_once.
RaceNext ==
    \/ start_check
    \/ start_body
    \/ aria2_step
    \/ tick_tellActive
    \/ tick_tellWaiting
    \/ tick_tellStopped
    \/ record_select
    \/ record_insert
    \/ forget_row
    \/ tick_except

ReconNext ==
    \/ TicksNext
    \/ torrents_add
    \/ torrents_remove
    \/ torrents_history
    \/ torrents_history_delete

YtdlNext ==
    \/ _start_tasks_once
    \/ youtubedl_add
    \/ youtubedl_add_start
    \/ yt_probe
    \/ yt_download
    \/ yt_complete
    \/ ytdl_task
    \/ ytdl_history
    \/ ytdl_history_delete
    \/ yt_clock

\* The run_youtubedl threads alone.
WorkerNext ==
    \/ yt_probe
    \/ yt_download
    \/ yt_complete

\* The run_youtubedl threads and the _ytdl_task loop.
PruneNext ==
    \/ WorkerNext
    \/ ytdl_task
    \/ yt_clock

\* The submissions of jobs alone.
SubmitNext ==
    \/ _start_tasks_once
    \/ torrents_add
    \/ youtubedl_add
    \/ youtubedl_add_start

\* The reconciler loop alone, with the daemon.
LoopNext ==
    \/ tick_tellActive
    \/ tick_tellWaiting
    \/ tick_tellStopped
    \/ record_select
    \/ record_insert
    \/ forget_row
    \/ tick_except

EnrichNext ==
    \/ enrich_call

AuthNext ==
    \/ _start_tasks_once
    \/ auth_login
    \/ auth_logout
    \/ route_api_share
    \/ route_api_delete
    \/ route_torrents_add
    \/ route_torrents_remove
    \/ route_torrents_history
    \/ route_torrents_history_delete
    \/ shared_entry

Init == PathInit /\ ShareInit /\ StartInit /\ ReconInit /\ YtdlInit /\ AuthInit /\ ViewInit

\* The process with its loops started and a task map of handles, each running
\* handle with its run_youtubedl thread.
PruneInit ==
    /\ PathInit /\ ShareInit /\ AuthInit /\ ViewInit
    /\ _started = TRUE
    /\ starting = 0
    /\ aria2 = [g \in Gids |-> "none"]
    /\ rc = StartLoops([t \in Loops |-> Off])
    /\ db_pending = [t \in Loops |-> {}]
    /\ torrent_history = {}
    /\ th_seq = 0
    /\ torrent_status = NoEmit
    /\ \E m \in TaskMaps :
        /\ YTDL_TASKS = m
        /\ workers = {JobOf(k) : k \in {j \in DOMAIN m : m[j] = "running"}}
        /\ youtubedl_history = {RecordOf(k, m[k]) : k \in DOMAIN m}
    /\ yt_seq = MaxTaskIds
    /\ ytdl_status = {}

SpecPath  == Init /\ [][PathNext]_vars
SpecShare == Init /\ [][ShareNext]_vars
SpecTicks == Init /\ [][TicksNext]_vars
SpecRace  == Init /\ [][RaceNext]_vars
SpecRecon == Init /\ [][ReconNext]_vars
SpecYtdl  == Init /\ [][YtdlNext]_vars
SpecEnrich == Init /\ [][EnrichNext]_vars
SpecAuth  == Init /\ [][AuthNext]_vars

\* Each thread runs on: a call to the daemon returns or times out, and
\* socketio.sleep(2) ends.
SpecTicksLive == SpecTicks /\ WF_vars(LoopNext)

\* Each run_youtubedl thread runs on: extract_info and download return or
\* raise, and an UPDATE returns or raises.
SpecYtdlLive == SpecYtdl /\ WF_vars(WorkerNext)

SpecSubmit == Init /\ [][SubmitNext]_vars
SpecPrune == PruneInit /\ [][PruneNext]_vars

\* The _ytdl_task thread runs on: socketio.sleep ends and the next round begins.
SpecPruneLive == SpecPrune /\ WF_vars(ytdl_task)

(***************************************************************************)
(* Properties of the job reconciler.                                       *)
(***************************************************************************)
RowsOf(g) == {r \in torrent_history : r.gid = g}

\* C1: in every reachable state the history store holds at most one
\* torrent_history row for any gid, however many ticks report the job as
\* complete.
C1_AtMostOneRowPerGid ==
    \A g \in Gids : Cardinality(RowsOf(g)) <= 1

Idle == \A t \in Loops : rc[t].pc \in {"off", "sleep"}

\* C2: once a job that the stopped list reported as complete is no longer
\* reported by the daemon, and no tick is under way, exactly one
\* torrent_history row with its gid exists.
C2_ExactlyOneRecord ==
    \A g \in Gids : (aria2[g] = "gone" /\ Idle) => Cardinality(RowsOf(g)) = 1

(***************************************************************************)
(* Properties of the path sandbox.                                         *)
(***************************************************************************)
\* C3: every resolution against a sandbox root either returns the root or a
\* descendant of the root, or signals PathEscape (400); it never returns a path
\* outside the root's directory tree.
C3_NeverOutsideRoot ==
    sj # NoCall =>
        IF sj.res.ok THEN Inside(sj.root, sj.res.path) ELSE sj.res.code = 400

(***************************************************************************)
(* Properties of the share registry.                                       *)
(***************************************************************************)
\* The row of the token the last request named.
RespRows == {s \in shares : s.token = resp.token}

\* The current time is past the row's expiresAt.
PastExpiry(s, t) == s.expires_at # NULL /\ t > s.expires_at * Res

\* C4: through a directory share, whatever is served (a file stream or a
\* listing) lies inside the shared target's subtree.
C4_ChildInsideTarget ==
    (resp.op = "access" /\ resp.code = 200) =>
        \A s \in RespRows : s.is_dir = 1 => Inside(s.target_path, resp.path)

\* C5: an access through the token of a share whose expiresAt is past serves
\* nothing, and a share that is past its expiresAt stays so in every later state.
C5_ExpiredNeverServes ==
    /\ [](\A s \in RespRows : (resp.op = "access" /\ PastExpiry(s, now)) => resp.code # 200)
    /\ [][\A s \in shares : PastExpiry(s, now) => (s \in shares' /\ PastExpiry(s, now'))]_vars

C5_Witness ==
    /\ resp.op = "access"
    /\ resp.code = 410
    /\ \E s \in RespRows : PastExpiry(s, now) /\ Exists(fs, s.target_path)

\* C6: the answer to an access through an expired token is the answer to an
\* access through a token that was never issued, 404 NotFound.
C6_ExpiredLooksUnknown ==
    \A s \in shares, u \in Tokens, child \in ChildRels :
        (PastExpiry(s, now) /\ ~\E x \in shares : x.token = u) =>
            SharedEntry(shares, fs, now, s.token, child) =
                SharedEntry(shares, fs, now, u, child)

\* C7: when issue answers with a token, the row of that token is stored, with
\* the sandboxed path of the request and the directory flag of that path, and
\* resolving the token at once (the share not expired) serves that very path:
\* as a listing for a directory, as a file stream otherwise.
C7_IssueThenResolve ==
    (resp.op = "share" /\ resp.code = 200) =>
        /\ RespRows # {}
        /\ \A s \in RespRows :
            LET r == SharedEntry(shares, fs, now, resp.token, NoRel) IN
            /\ s.target_path = _safe_join(resp.rel).path
            /\ s.is_dir = 1 <=> IsDir(fs, s.target_path)
            /\ ~PastExpiry(s, now) =>
                /\ r.code = 200
                /\ r.path = s.target_path
                /\ r.kind = IF s.is_dir = 1 THEN "listing" ELSE "file"

C7_Witness ==
    /\ resp.op = "share"
    /\ resp.code = 200
    /\ \E s \in RespRows : s.is_dir = 1 /\ ~PastExpiry(s, now)

(***************************************************************************)
(* Properties of the local extraction jobs.                                *)
(***************************************************************************)
HasRecord(hist, id) == \E r \in hist : r.id = id

\* A worker is running or has crashed.
Started(w) == w.pc \in RunningPc \cup {"error"}

\* C8, as stated: in every reachable state a worker that is running or has
\* crashed has a record of its job in youtubedl_history.
C8_StartedHasRecord ==
    \A w \in workers : Started(w) => HasRecord(youtubedl_history, w.db_id)

\* C8, amended: the record of a job is committed before its worker exists, the
\* worker is started in a later step than the commit, and a committed record
\* leaves the store only by a history-delete request.
C8_CommittedBeforeStart ==
    [][ /\ \A w \in workers' :
            ~(\E v \in workers : v.db_id = w.db_id) =>
                (w.pc = "created" /\ HasRecord(youtubedl_history', w.db_id))
        /\ \A w \in workers' \ workers : Started(w) => w.db_id <= yt_seq
        /\ \A r \in youtubedl_history :
            ~HasRecord(youtubedl_history', r.id) => ytdl_history_delete
      ]_vars

C8_Witness ==
    \E w \in workers :
        /\ w.pc = "probe"
        /\ \E r \in youtubedl_history : r.id = w.db_id /\ r.completed_at = NULL

\* C9: a record is created with the placeholder name and a null completed_at;
\* completed_at, once set, never changes; and it is set only by a worker whose
\* download has returned with success, on a record that carries the title the
\* worker resolved.
C9_RecordLifecycle ==
    [][ /\ \A r \in youtubedl_history' :
            ~HasRecord(youtubedl_history, r.id) =>
                (r.name = PLACEHOLDER /\ r.completed_at = NULL)
        /\ \A q \in youtubedl_history, r \in youtubedl_history' :
            q.id = r.id =>
                /\ q.completed_at # NULL => r.completed_at = q.completed_at
                /\ (q.completed_at = NULL /\ r.completed_at # NULL) =>
                    \E w \in workers :
                        /\ w.db_id = r.id
                        /\ w.pc = "complete"
                        /\ w.retcode = 0
                        /\ r.name = w.title
      ]_vars

\* C10: while the worker of an accepted submission runs, YTDL_TASKS holds a
\* handle for its task id with status running.
C10_HandleWhileRunning ==
    \A w \in workers :
        w.pc \in RunningPc =>
            (w.task_id \in DOMAIN YTDL_TASKS /\ YTDL_TASKS[w.task_id] = "running")

\* C11: when a worker fails (the probe, the download or an UPDATE raises) the
\* handle of its task is marked error at that step; the completed_at of its
\* record is null in every later state; and its record leaves the store only
\* by a history-delete request.
C11_FailureMarked ==
    [][ /\ \A w \in workers' :
            (w.pc = "error" /\ w \notin workers) =>
                (w.task_id \in DOMAIN YTDL_TASKS' /\ YTDL_TASKS'[w.task_id] = "error")
        /\ \A w \in workers, r \in youtubedl_history' :
            (w.pc = "error" /\ r.id = w.db_id) => r.completed_at = NULL
        /\ \A w \in workers :
            (w.pc = "error" /\ HasRecord(youtubedl_history, w.db_id)
                /\ ~HasRecord(youtubedl_history', w.db_id)) => ytdl_history_delete
      ]_vars

(***************************************************************************)
(* Properties of one reconciler tick.                                      *)
(***************************************************************************)
\* The tick of thread t ends at this step.
TickEnds(t) == rc[t].pc \notin {"off", "sleep", "except"} /\ rc'[t].pc \in {"sleep", "except"}

\* C12: a tick that has reached the forget call of a completed job ends only
\* with the history rows of that job and of every job it inserted persisted,
\* and with its live-progress list published, whether the forget call failed
\* or not.
C12_ForgetFailureNonFatal ==
    [][ \A t \in Loops :
            (rc[t].pc = "forget" /\ TickEnds(t)) =>
                /\ \A g \in Gids :
                    (g = Head(rc[t].rows).gid \/ HasRow(db_pending[t], g)) =>
                        HasRow(torrent_history', g)
                /\ torrent_status'.emitted
      ]_vars

FetchPcs == {"sleep", "tellWaiting", "tellStopped"}

\* C13: a tick in which a list fetch fails (the call raises) inserts no history
\* row and publishes nothing; the failure ends in the except clause, from where
\* the thread goes to its sleep and on to the next tick, whatever failed in
\* the tick.
C13_FailedTickSwallowed ==
    /\ [][ \A t \in Loops :
            /\ (rc[t].pc \in FetchPcs /\ rc'[t].pc = "except") =>
                    /\ torrent_history' = torrent_history
                    /\ db_pending[t] = {} /\ db_pending'[t] = {}
                    /\ ~torrent_status'.emitted
            /\ (rc[t].pc = "except" /\ rc'[t] # rc[t]) =>
                    /\ rc'[t].pc = "sleep"
                    /\ torrent_history' = torrent_history
                    /\ ~torrent_status'.emitted
            /\ rc[t].pc # "off" => rc'[t].pc # "off"
         ]_vars
    /\ \A t \in Loops : [](rc[t].pc = "except" => <>(rc[t].pc = "sleep"))
    /\ \A t \in Loops : [](rc[t].pc = "sleep" => <>(rc[t].pc \in {"tellWaiting", "except"}))

C13_Witness ==
    \E t \in Loops :
        /\ rc[t].pc = "except"
        /\ rc[t].rows = <<>>
        /\ db_pending[t] = {}
        /\ \E g \in Gids : aria2[g] = "complete"

\* C14: a published live-progress list is exactly the rows of the publishing
\* tick's active and waiting fetches whose status is active, waiting or paused;
\* the fetched lists are the daemon's answers of that tick, a new tick starts
\* with none, and no published row has another status.
C14_PublishedIsTickSnapshot ==
    /\ [](torrent_status.emitted =>
            \A r \in torrent_status.progress : r.status \in LiveStatus)
    /\ [](\A t \in Loops : rc[t].pc = "sleep" =>
            (rc[t].active = {} /\ rc[t].waiting = {} /\ rc[t].progress = {}))
    /\ [][ /\ torrent_status'.emitted =>
                \E t \in Loops :
                    /\ TickEnds(t)
                    /\ torrent_status'.progress =
                        {r \in rc[t].active \cup rc[t].waiting :
                            r.status \in {"active", "waiting", "paused"}}
           /\ \A t \in Loops :
                /\ (rc[t].pc = "sleep" /\ rc'[t].pc = "tellWaiting") =>
                        rc'[t].active \in {{}, TellActive}
                /\ (rc[t].pc = "tellWaiting" /\ rc'[t].pc = "tellStopped") =>
                        (rc'[t].active = rc[t].active /\ rc'[t].waiting \in {{}, TellWaiting})
                /\ (rc[t].pc \in {"tellStopped", "select", "insert", "forget"}
                        /\ rc'[t].pc \in {"select", "insert", "forget"}) =>
                        (rc'[t].active = rc[t].active /\ rc'[t].waiting = rc[t].waiting)
         ]_vars

C14_Witness ==
    /\ torrent_status.emitted
    /\ \E r \in torrent_status.progress : r.status \in {"waiting", "paused"}
    /\ \E g \in Gids : aria2[g] = "complete" /\ RowsOf(g) # {}

\* C15: a torrent_history row is inserted only for the job at the head of the
\* tick's completed rows, which the daemon's stopped list reported with status
\* complete in this tick; a job whose status is active, waiting, paused, error
\* or removed has no row, committed or pending.
C15_OnlyCompleteRecorded ==
    /\ [](\A t \in Loops : \A r \in torrent_history \cup db_pending[t] :
            aria2[r.gid] \in {"complete", "gone"})
    /\ [][ \A t \in Loops :
            /\ \A r \in db_pending'[t] \ db_pending[t] :
                    /\ rc[t].pc = "insert"
                    /\ Head(rc[t].rows) = [gid |-> r.gid, status |-> "complete"]
            /\ (rc[t].pc = "tellStopped" /\ rc'[t].pc = "select") =>
                    \A i \in 1..Len(rc'[t].rows) :
                        /\ rc'[t].rows[i] \in TellStopped
                        /\ rc'[t].rows[i].status = "complete"
         ]_vars

C15_Witness ==
    /\ torrent_history # {}
    /\ \E g \in Gids : aria2[g] \in {"error", "removed"} /\ RowsOf(g) = {}

\* C20: when the daemon is told to forget a job, a committed torrent_history
\* row with the job's gid already exists.
C20_ForgetAfterCommit ==
    [][ \A g \in Gids :
            (aria2[g] # "gone" /\ aria2'[g] = "gone") => HasRow(torrent_history, g)
      ]_vars

(***************************************************************************)
(* Properties of the login gate.                                           *)
(***************************************************************************)
\* A decorated handler runs its body at this step.
HandlerRuns ==
    \/ api_share
    \/ api_delete
    \/ torrents_add
    \/ torrents_remove
    \/ torrents_history
    \/ torrents_history_delete

\* C16: a decorated handler runs only while the session is logged in -- after
\* a logout not before the next successful login; a request without the flag
\* is answered 401 and changes nothing but the response.
C16_OnlyWhileLoggedIn ==
    [][ /\ HandlerRuns => cookie_jar = LoggedIn
        /\ (resp' # resp /\ resp'.code = 401 /\ resp'.op # "login") =>
                UNCHANGED <<pathVars, startVars, fs, shares, now, reconVars, ytdlVars,
                            authVars, viewVars>>
      ]_vars

(***************************************************************************)
(* Properties of the enriched view.                                        *)
(***************************************************************************)
\* The reported total is zero: the key is missing, or the text is empty or
\* made of zeros only.
ZeroTotal(tl) == ~tl.given \/ \A i \in 1..Len(tl.text) : tl.text[i] = "0"

\* C17: in an enriched row, isMetadata is true exactly when the reported total
\* size is zero, a missing or empty total counting as zero.
C17_MetadataIffZeroTotal ==
    (enriched.called /\ enriched.ok) =>
        (enriched.isMetadata <=> ZeroTotal(enriched.row.totalLength))

C17_Witness ==
    /\ enriched.called
    /\ enriched.ok
    /\ enriched.row.totalLength = [given |-> TRUE, text |-> <<"0">>]
    /\ enriched.isMetadata

IsPrefix(q, path) == Len(q) <= Len(path) /\ SubSeq(path, 1, Len(q)) = q

\* The longest tuple of segments that every path of the list starts with.
LongestCommonPrefix(paths) ==
    LET cands == {SubSeq(paths[1], 1, k) : k \in 0..Len(paths[1])}
        shared == {q \in cands : \A i \in 1..Len(paths) : IsPrefix(q, paths[i])}
    IN CHOOSE q \in shared : \A x \in shared : Len(x) <= Len(q)

\* C18: the display name is the embedded name when there is a non-empty one;
\* otherwise the last segment of the longest common prefix of the files'
\* paths; otherwise, with no common prefix, the first file's own name; and
\* "(unknown)" when there is neither an embedded name nor a file with a path.
C18_NamePriority ==
    (enriched.called /\ enriched.ok) =>
        LET bt == enriched.row.bittorrent
            paths == SelectSeq(enriched.row.files, LAMBDA q : q # <<>>)
        IN
        IF bt.has /\ bt.name # "" THEN enriched.name = bt.name
        ELSE IF paths = <<>> THEN enriched.name = "(unknown)"
        ELSE IF PathName(LongestCommonPrefix(paths)) # ""
             THEN enriched.name = PathName(LongestCommonPrefix(paths))
        ELSE enriched.name \in {PathName(enriched.row.files[1]), PathName(paths[1])}

(***************************************************************************)
(* Properties of the time to live of a share.                              *)
(***************************************************************************)
\* C19: a share issued with a time to live <= 0 is stored with a null
\* expires_at, and any share with a null expires_at is served at every time as
\* long as its target exists; a share issued with a time to live > 0 gets the
\* expires_at, in whole seconds, of the instant that lies the time to live
\* after the issue.
C19_TtlGovernsExpiry ==
    /\ [](\A s \in shares :
            (s.expires_at = NULL /\ Exists(fs, s.target_path)) =>
                SharedEntry(shares, fs, now, s.token, NoRel).code = 200)
    /\ [](\A ttl \in TtlChoices, token \in Tokens, target \in DOMAIN fs :
            LET s == ShareRow(token, target, fs, now, ttl) IN
            /\ ttl <= 0 => s.expires_at = NULL
            /\ ttl > 0 => /\ s.expires_at # NULL
                          /\ s.expires_at * Res <= now + ttl
                          /\ now + ttl < (s.expires_at + 1) * Res)
    /\ [][ \A s \in shares' \ shares :
            /\ s.created_at * Res <= now /\ now < (s.created_at + 1) * Res
            /\ \E ttl \in TtlChoices : s = ShareRow(resp'.token, s.target_path, fs, now, ttl)
         ]_vars

C19_Witness ==
    /\ now = MaxTime
    /\ resp.op = "access"
    /\ resp.code = 200
    /\ \E s \in RespRows : s.expires_at = NULL /\ s.created_at * Res < now

\* C21: whatever requests arrive, overlapping first requests included, each
\* background loop is started at most once, so that no more than one
\* _torrent_task thread ever runs.
C21_LoopsStartedOnce ==
    Cardinality(Running) <= 1

\* The worker w fails in this step: it goes from running to the except clause.
Fails(w) ==
    /\ w \in workers
    /\ w.pc \in RunningPc
    /\ w \notin workers'
    /\ [w EXCEPT !.pc = "error"] \in workers'

JobRuns(id) == \E w \in workers : w.db_id = id /\ w.pc \in RunningPc

\* C22: a step in which one extraction worker fails changes at most the status
\* of that job's own task handle: every other worker, every job record, every
\* other handle and the background loops are as before; and each worker that
\* runs, whatever happens to the others, comes to its own end.
C22_FailureIsolated ==
    /\ [][\A w \in workers : Fails(w) =>
            /\ workers' \ {[w EXCEPT !.pc = "error"]} = workers \ {w}
            /\ youtubedl_history' = youtubedl_history
            /\ DOMAIN YTDL_TASKS' = DOMAIN YTDL_TASKS
            /\ \A k \in DOMAIN YTDL_TASKS \ {w.task_id} : YTDL_TASKS'[k] = YTDL_TASKS[k]
            /\ rc' = rc
            /\ _started' = _started]_vars
    /\ \A id \in 1..MaxJobs : JobRuns(id) ~> ~JobRuns(id)

\* One worker has failed while another one is running.
C22_Witness ==
    \E w, v \in workers :
        /\ w.pc = "error"
        /\ v.pc \in RunningPc
        /\ v.db_id # w.db_id
        /\ Running # {}

Terminal == {"finished", "error"}
Pruned == DOMAIN YTDL_TASKS \ DOMAIN YTDL_TASKS'

C24_PruneOnlyTerminal ==
    /\ [][\A k \in Pruned : YTDL_TASKS[k] \in Terminal]_vars
    /\ [][Pruned # {} => youtubedl_history' = youtubedl_history]_vars
    /\ \A k \in TaskIds :
        (k \in DOMAIN YTDL_TASKS /\ YTDL_TASKS[k] \in Terminal) ~> (k \notin DOMAIN YTDL_TASKS)

\* A handle has been pruned, its job record is still there, and a running
\* handle is still in the map.
C24_Witness ==
    \E k, j \in TaskIds :
        /\ k \notin DOMAIN YTDL_TASKS
        /\ HasRecord(youtubedl_history, k)
        /\ j \in DOMAIN YTDL_TASKS
        /\ YTDL_TASKS[j] = "running"

\* C25: a job submission answered with the client error 400 (a missing link,
\* a destination the download sandbox refuses) leaves everything but the
\* answer as it was: no directory is made, no history record is inserted, no
\* worker is created or started, no handle is created, and the daemon gets no
\* job.
C25_RejectedChangesNothing ==
    [][((torrents_add \/ youtubedl_add) /\ resp'.code = 400) =>
          /\ resp'.op \in {"torrents_add", "youtubedl_add"}
          /\ UNCHANGED <<fs, shares, now, aria2, rc, db_pending, torrent_history, th_seq,
                         youtubedl_history, yt_seq, workers, YTDL_TASKS, ytdl_status,
                         _started, starting, cookie_jar, signed>>]_vars

\* A submission has been refused for its destination while a job of the
\* daemon and an extraction worker exist.
C25_Witness ==
    /\ resp.op \in {"torrents_add", "youtubedl_add"}
    /\ resp.code = 400
    /\ resp.rel = RelPath(0, <<DOTDOT, NA>>)
    /\ workers # {}
    /\ \E g \in Gids : aria2[g] # "none"

\* C26: once the target of a share is gone from the storage, an access through
\* the token is answered 404 NotFound, and neither the deletion nor the access
\* changes the rows of the shares.
C26_DeletedTargetNotFound ==
    /\ []((resp.op = "access" /\ \E s \in RespRows : ~Exists(fs, s.target_path)) =>
              resp.code = 404)
    /\ [][(api_delete \/ shared_entry) => shares' = shares]_vars

RecordPcs == {"select", "insert", "forget"}

\* C27: the inserts of one tick are all or nothing: a thread that is recording
\* the completed jobs of its tick persists nothing before the commit, and when
\* the tick fails on the way (a call to the daemon or an INSERT raises) its
\* transaction is empty again and the committed rows and the id counter are
\* what they were; outside the recording a thread has no open transaction.
C27_TickInsertsAllOrNothing ==
    /\ [][\A t \in Loops :
            (rc[t].pc \in RecordPcs /\ rc'[t] # rc[t] /\
             rc'[t].pc \in RecordPcs \cup {"except"}) =>
                /\ torrent_history' = torrent_history
                /\ th_seq' = th_seq
                /\ rc'[t].pc = "except" => db_pending'[t] = {}]_vars
    /\ [](\A t \in Loops : rc[t].pc \notin RecordPcs => db_pending[t] = {})

\* A tick has failed at its second job, after the first one was inserted and
\* dropped by the daemon: no row of the first job is stored.
C27_Witness ==
    \E t \in Loops, g \in Gids :
        /\ rc[t].pc = "except"
        /\ rc[t].rows # <<>>
        /\ Head(rc[t].rows).gid # g
        /\ aria2[g] = "gone"
        /\ ~HasRow(torrent_history, g)
        /\ db_pending[t] = {}

=============================================================================
